---- MODULE Spec2Model ----
(***************************************************************************)
(* Model of torch::jit::specializeAutogradZero                             *)
(* (torch/csrc/jit/passes/specialize_autogradzero.cpp).                    *)
(*                                                                         *)
(* A graph is a primary block (a sequence of node ids), a table of live    *)
(* nodes and the inputs of the return node (the graph outputs).  A value   *)
(* is a pair <<n, j>>: output j of node n; the graph inputs are the        *)
(* outputs of the parameter node, ParamNode.  A prim::GradOf node owns one *)
(* nested block: its node ids (body) and the inputs of the block's return  *)
(* node (bouts).                                                           *)
(***************************************************************************)
EXTENDS Integers, Sequences, FiniteSets, TLC

\* Bounds of the explored input graphs.
MaxTop == 2        \* nodes in the primary block of an input graph
MaxRegionIn == 2   \* inputs of a top-level prim::GradOf node
MaxInputs == 2     \* graph inputs of the graphs that vary the input types

ParamNode == 0     \* owner of the graph input values
ReturnNode == -1   \* sentinel of the node list: g.nodes().end()

VARIABLES
    itypes,    \* types of the graph inputs (g.inputs()[i]->type())
    nodes,     \* live nodes: id -> [kind, inputs, nout, body, bouts]
    block,     \* g.nodes(): the primary block, in order
    gouts,     \* inputs of the return node of the primary block
    nextId,    \* next fresh node id
    state,     \* std::unordered_map<Value*, State> state
    pc,        \* "seed", "scan", "done", "abort"
    si,        \* index of the seeding loop (line 17)
    it,        \* the scan iterator (line 34): a node id or ReturnNode
    run,       \* 1 in the first call of the pass, 2 in a second call
    implicit,  \* history: keys state[] holds only because operator[] made them
    visited,   \* history: the nodes dispatched in this call, in order
    hoisted,   \* history: the nodes moved out of a GradOf body by this call
    created,   \* history: the nodes created by this call
    last,      \* history: the rule of the last step and the node it acted on
    pre,       \* history: the graph and the map before the last step
    g0         \* history: the graph the first call was given

vars == <<itypes, nodes, block, gouts, nextId, state, pc, si, it, run,
          implicit, visited, hoisted, created, last, pre, g0>>

----------------------------------------------------------------------------
(* Sequences *)

Range(s) == {s[i] : i \in DOMAIN s}

IndexOf(s, x) == CHOOSE i \in DOMAIN s : s[i] = x

RemoveAt(s, i) == SubSeq(s, 1, i - 1) \o SubSeq(s, i + 1, Len(s))

ReplaceInSeq(s, old, new) == [i \in DOMAIN s |-> IF s[i] = old THEN new ELSE s[i]]

SeqsUpTo(S, n) == UNION {[1..k -> S] : k \in 0..n}

----------------------------------------------------------------------------
(* Types and seeding (lines 14-32) *)

\* enum class State { Nonzero, Zero, Unknown }
StateEnum == <<"Nonzero", "Zero", "Unknown">>

States == Range(StateEnum)

\* The types a graph input can have.  zero is the optional<bool>
\* TensorType::autogradZero(): "true", "false" or "absent".
TensorTypes == [kind : {"TensorType"}, zero : {"true", "false", "absent"}]

OtherTypes == [kind : {"TensorSubtype", "TensorList", "OptionalTensor", "Int"},
               zero : {"absent"}]

Types == TensorTypes \cup OtherTypes

\* tp->cast<TensorType>() is non-null
castTensorType(tp) == tp.kind = "TensorType"

\* tp->isSubtypeOf(TensorType::get())
isSubtypeOfTensor(tp) == tp.kind \in {"TensorType", "TensorSubtype"}

\* tp->isSubtypeOf(ListType::ofTensors())
isSubtypeOfTensorList(tp) == tp.kind = "TensorList"

\* tt->autogradZero() && *tt->autogradZero()
autogradZeroSet(tp) == tp.zero # "absent" /\ tp.zero = "true"

\* SeedState taking a flag that is absent for a flag that is true
SeedState_absentIsZero(tp) ==
    IF castTensorType(tp)
    THEN IF tp.zero # "false" THEN "Zero" ELSE "Nonzero"
    ELSE IF isSubtypeOfTensor(tp) \/ isSubtypeOfTensorList(tp)
         THEN "Nonzero"
         ELSE "Unknown"

SeedState(tp) ==
    IF castTensorType(tp)
    THEN IF autogradZeroSet(tp) THEN "Zero" ELSE "Nonzero"
    ELSE IF isSubtypeOfTensor(tp) \/ isSubtypeOfTensorList(tp)
         THEN "Nonzero"
         ELSE "Unknown"

----------------------------------------------------------------------------
(* The IR: nodes, values, uses *)

MkNode(k, ins, n, b, bo) ==
    [kind |-> k, inputs |-> ins, nout |-> n, body |-> b, bouts |-> bo]

\* n->outputs()
Outputs(ns, n) == [j \in 1..ns[n].nout |-> <<n, j>>]

\* n and every node of the blocks it owns, transitively
RECURSIVE Subtree(_, _)
Subtree(ns, n) == {n} \cup UNION {Subtree(ns, m) : m \in Range(ns[n].body)}

\* v->replaceAllUsesWith(w): every input slot of every node, and of every
\* return node, that reads v reads w afterwards.  G = [nodes, block, gouts].
replaceAllUsesWith(G, v, w) ==
    [G EXCEPT
       !.nodes = [m \in DOMAIN @ |->
                    [@[m] EXCEPT !.inputs = ReplaceInSeq(@, v, w),
                                 !.bouts = ReplaceInSeq(@, v, w)]],
       !.gouts = ReplaceInSeq(@, v, w)]

\* a node that is created and not yet in any block
createNode(G, id, node) == [G EXCEPT !.nodes = (id :> node) @@ @]

\* m->insertAfter(n), n in the primary block
insertAfter(G, m, n) ==
    [G EXCEPT !.block = SubSeq(@, 1, IndexOf(@, n)) \o <<m>>
                            \o SubSeq(@, IndexOf(@, n) + 1, Len(@))]

\* m->insertBefore(n), n in the primary block
insertBefore(G, m, n) ==
    [G EXCEPT !.block = SubSeq(@, 1, IndexOf(@, n) - 1) \o <<m>>
                            \o SubSeq(@, IndexOf(@, n), Len(@))]

\* m->moveBefore(n): m leaves the block that holds it (the body of owner)
\* and is inserted before n
moveBefore(G, owner, m, n) ==
    insertBefore([G EXCEPT !.nodes[owner].body = RemoveAt(@, IndexOf(@, m))], m, n)

\* n->destroy(), n in the primary block: n, its outputs and the blocks it
\* owns cease to exist
destroy(G, n) ==
    [G EXCEPT !.nodes = [m \in DOMAIN @ \ Subtree(@, n) |-> @[m]],
              !.block = RemoveAt(@, IndexOf(@, n))]

\* graph_node_list_iterator: *it for the position after c
Succ(blk, c) ==
    IF c = ReturnNode
    THEN IF blk = <<>> THEN ReturnNode ELSE blk[1]
    ELSE LET i == IndexOf(blk, c)
         IN  IF i = Len(blk) THEN ReturnNode ELSE blk[i + 1]

Pred(blk, c) ==
    LET i == IndexOf(blk, c) IN IF i = 1 THEN ReturnNode ELSE blk[i - 1]

\* it.destroyCurrent(): the iterator steps back to the previous element, then
\* the node is destroyed, so that ++it lands on what followed the node.
\* The result is the graph and the iterator.
destroyCurrent(G, n) == [G |-> destroy(G, n), it |-> Pred(G.block, n)]

\* the values some input slot reads
UsedValues(G) ==
    Range(G.gouts) \cup
    UNION {Range(G.nodes[m].inputs) \cup Range(G.nodes[m].bouts) : m \in DOMAIN G.nodes}

----------------------------------------------------------------------------
(* The classification map (line 15) *)

\* DefaultState were Unknown the first enumerator
DefaultState_unknown == "Unknown"

\* operator[] on a key with no entry value-initialises the entry: State(0),
\* the first enumerator
DefaultState == StateEnum[1]

\* the value of the expression state[v]
Lookup(st, v) == IF v \in DOMAIN st THEN st[v] ELSE DefaultState

\* the map after the expressions state[v], v in vs, were evaluated
Touch(st, vs) ==
    [v \in DOMAIN st \cup vs |-> IF v \in DOMAIN st THEN st[v] ELSE DefaultState]

\* state[v] = s
Assign(st, v, s) == [x \in DOMAIN st \cup {v} |-> IF x = v THEN s ELSE st[x]]

\* AssignAll making the assignment for the first output only
AssignAll_first(st, vs, s, i) == IF vs = <<>> THEN st ELSE Assign(st, vs[1], s)

RECURSIVE AssignAll(_, _, _, _)
AssignAll(st, vs, s, i) ==
    IF i > Len(vs) THEN st ELSE AssignAll(Assign(st, vs[i], s), vs, s, i + 1)

----------------------------------------------------------------------------
(* case prim::GradOf (lines 37-75) *)

\* lines 38-41
all_zeros(st, ins) == \A i \in DOMAIN ins : Lookup(st, ins[i]) = "Zero"

\* the inputs std::all_of evaluates state[v] on: it stops at the first
\* input that is not Zero
AllOfReads(st, ins) ==
    {ins[i] : i \in {k \in DOMAIN ins :
                       \A j \in 1..(k - 1) : Lookup(st, ins[j]) = "Zero"}}

\* AssertFails with the assertion made on the first input only
AssertFails_first(st, ins) == ins # <<>> /\ Lookup(st, ins[1]) = "Unknown"

\* lines 58-64: some AT_ASSERT(state[input] != State::Unknown) fails
AssertFails(st, ins) == \E i \in DOMAIN ins : Lookup(st, ins[i]) = "Unknown"

\* the inputs the loop of lines 58-64 evaluates state[input] on: it stops at
\* the first failing assertion
AssertReads(st, ins) ==
    {ins[i] : i \in {k \in DOMAIN ins :
                       \A j \in 1..(k - 1) : Lookup(st, ins[j]) # "Unknown"}}

ZeroNode == MkNode("prim::AutogradZero", <<>>, 1, <<>>, <<>>)

\* RewireToZero redirecting the uses of the first output only
RewireToZero_first(G, n, zero, i) ==
    IF G.nodes[n].nout = 0 THEN G ELSE replaceAllUsesWith(G, <<n, 1>>, zero)

\* lines 47-49: for (auto o : n->outputs()) o->replaceAllUsesWith(zero)
RECURSIVE RewireToZero(_, _, _, _)
RewireToZero(G, n, zero, i) ==
    IF i > G.nodes[n].nout THEN G
    ELSE RewireToZero(replaceAllUsesWith(G, <<n, i>>, zero), n, zero, i + 1)

\* lines 46-49 and 74; z is the id of the node createAutogradZero() makes
CollapseGradOf(G, n, z) ==
    LET G1 == insertAfter(createNode(G, z, ZeroNode), z, n)
        G2 == RewireToZero(G1, n, <<z, 1>>, 1)
    IN  destroyCurrent(G2, n)

\* HoistBody walking the body from its last node to its first
RECURSIVE HoistBody_backwards(_, _)
HoistBody_backwards(G, n) ==
    IF G.nodes[n].body = <<>> THEN G
    ELSE LET b == G.nodes[n].body
         IN  HoistBody_backwards(moveBefore(G, n, b[Len(b)], n), n)

\* lines 66-69: every node of the body, first to last, moves before n
RECURSIVE HoistBody(_, _)
HoistBody(G, n) ==
    IF G.nodes[n].body = <<>> THEN G
    ELSE HoistBody(moveBefore(G, n, Head(G.nodes[n].body), n), n)

\* RewireToBody without the replaceAllUsesWith of line 72
RewireToBody_skipped(G, n, i) == G

\* lines 71-72
RECURSIVE RewireToBody(_, _, _)
RewireToBody(G, n, i) ==
    IF i > G.nodes[n].nout THEN G
    ELSE RewireToBody(replaceAllUsesWith(G, <<n, i>>, G.nodes[n].bouts[i]), n, i + 1)

\* SpliceGradOf with an iterator that steps back to the node that preceded n
\* before the body was moved
SpliceGradOf_rescan(G, n) ==
    [G |-> destroy(RewireToBody(HoistBody(G, n), n, 1), n), it |-> Pred(G.block, n)]

\* lines 57-74, the assertions having passed
SpliceGradOf(G, n) == destroyCurrent(RewireToBody(HoistBody(G, n), n, 1), n)

----------------------------------------------------------------------------
(* case prim::AutogradAdd (lines 76-102) *)

\* DropAdd with an iterator that is on the next node when the add is
\* destroyed
DropAdd_advanced(G, n, keep) ==
    [G |-> destroy(replaceAllUsesWith(G, <<n, 1>>, keep), n), it |-> Succ(G.block, n)]

\* lines 82-83 and 86-87: the uses of the add read keep, the add is destroyed
DropAdd(G, n, keep) == destroyCurrent(replaceAllUsesWith(G, <<n, 1>>, keep), n)

\* PlainAdd with the operands exchanged
PlainAdd_swapped(a, b) == MkNode("aten::add", <<b, a>>, 1, <<>>, <<>>)

\* toVar(a) + toVar(b) under WithInsertPoint guard(n): an aten::add node
\* inserted before n
PlainAdd(a, b) == MkNode("aten::add", <<a, b>>, 1, <<>>, <<>>)

\* lines 91-95 but for the map; id is the id of the new node
PromoteAdd(G, n, id, a, b) ==
    LET G1 == insertBefore(createNode(G, id, PlainAdd(a, b)), id, n)
    IN  destroyCurrent(replaceAllUsesWith(G1, <<n, 1>>, <<id, 1>>), n)

----------------------------------------------------------------------------
(* The input graphs *)

OpaqueNode(x) == MkNode("aten::op", <<x>>, 1, <<>>, <<>>)

\* an opaque operation of two outputs
OpaqueNode2(x) == MkNode("aten::op", <<x>>, 2, <<>>, <<>>)

AddNode(a, b) == MkNode("prim::AutogradAdd", <<a, b>>, 1, <<>>, <<>>)

\* The bodies a GradOf node of an input graph can have.  b is the id of the
\* first node of the body and x a value defined outside of it.
BodyShapes == {"pass", "op", "two", "zero", "add", "nest"}

Body(shape, b, x) ==
    CASE shape = "pass" ->
           [nodes |-> <<>>, body |-> <<>>, bouts |-> <<x>>]
      [] shape = "op" ->
           [nodes |-> (b :> OpaqueNode(x)), body |-> <<b>>, bouts |-> <<<<b, 1>>>>]
      [] shape = "two" ->
           [nodes |-> (b :> OpaqueNode(x)) @@ (b + 1 :> OpaqueNode(<<b, 1>>)),
            body |-> <<b, b + 1>>, bouts |-> <<<<b + 1, 1>>, <<b, 1>>>>]
      [] shape = "zero" ->
           [nodes |-> (b :> ZeroNode), body |-> <<b>>, bouts |-> <<<<b, 1>>>>]
      [] shape = "add" ->
           [nodes |-> (b :> AddNode(x, x)), body |-> <<b>>, bouts |-> <<<<b, 1>>>>]
      [] shape = "nest" ->
           [nodes |-> (b :> MkNode("prim::GradOf", <<x>>, 1, <<b + 1>>, <<<<b + 1, 1>>>>))
                      @@ (b + 1 :> OpaqueNode(x)),
            body |-> <<b>>, bouts |-> <<<<b, 1>>>>]

EmptyGraph == [nodes |-> <<>>, block |-> <<>>, next |-> 1]

AddTop(g, node, extra) ==
    [nodes |-> (g.next :> node) @@ extra @@ g.nodes,
     block |-> Append(g.block, g.next),
     next |-> g.next + 1 + Cardinality(DOMAIN extra)]

InputValues(k) == {<<ParamNode, j>> : j \in 1..k}

\* the values in scope at the end of the primary block of g, a graph of k
\* inputs
Avail(g, k) ==
    InputValues(k) \cup UNION {Range(Outputs(g.nodes, n)) : n \in Range(g.block)}

\* v is defined before w
Before(v, w) == v[1] < w[1] \/ (v[1] = w[1] /\ v[2] < w[2])

\* the input lists of a GradOf node: distinct values in definition order
RegionInputs(A) ==
    {s \in SeqsUpTo(A, MaxRegionIn) : \A i \in 1..(Len(s) - 1) : Before(s[i], s[i + 1])}

RegionNode(g, ins, shape) ==
    LET x == IF ins = <<>> THEN <<ParamNode, 1>> ELSE ins[1]
        B == Body(shape, g.next + 1, x)
    IN  AddTop(g, MkNode("prim::GradOf", ins, Len(B.bouts), B.body, B.bouts), B.nodes)

\* a GradOf node of at most one input has any of the bodies, another one the
\* body of one opaque node
RegionShapes(ins, k) == IF Len(ins) <= 1 THEN BodyShapes ELSE {"op"}

\* g with one more node at the end of its primary block
Extensions(g, k) ==
    LET A == Avail(g, k) IN
    {AddTop(g, ZeroNode, <<>>)}
    \cup {AddTop(g, OpaqueNode(x), <<>>) : x \in A}
    \cup {AddTop(g, OpaqueNode2(<<ParamNode, 1>>), <<>>)}
    \cup {AddTop(g, AddNode(ab[1], ab[2]), <<>>) : ab \in A \X A}
    \cup UNION {{RegionNode(g, ins, sh) : sh \in RegionShapes(ins, k)} :
                  ins \in RegionInputs(A)}

\* one input that seeds Nonzero, one Zero, one Unknown
BaseTypes == <<[kind |-> "TensorType", zero |-> "absent"],
               [kind |-> "TensorType", zero |-> "true"],
               [kind |-> "Int", zero |-> "absent"]>>

\* the graphs whose input types vary: a GradOf over all the inputs, or an
\* AutogradAdd of the first and the last input
TypedGraphs(k) ==
    {RegionNode(EmptyGraph, [j \in 1..k |-> <<ParamNode, j>>], "op"),
     AddTop(EmptyGraph, AddNode(<<ParamNode, 1>>, <<ParamNode, k>>), <<>>)}

TypeVectors == UNION {[1..k -> Types] : k \in 1..MaxInputs}

\* the nodes of the primary block the return node reads: all but the zero
\* literals, which have no use unless a later node reads them
Returned(g) == SelectSeq(g.block, LAMBDA m : g.nodes[m].kind # "prim::AutogradZero")

\* the return node reads the last output of each of them
GraphOutputs(g) ==
    [i \in DOMAIN Returned(g) |-> <<Returned(g)[i], g.nodes[Returned(g)[i]].nout>>]

Graph == [nodes |-> nodes, block |-> block, gouts |-> gouts]

Snapshot == [nodes |-> nodes, block |-> block, gouts |-> gouts,
             state |-> state, implicit |-> implicit, it |-> it]

InitWith(tv, g) ==
    /\ itypes = tv
    /\ nodes = g.nodes
    /\ block = g.block
    /\ gouts = GraphOutputs(g)
    /\ nextId = g.next
    /\ state = <<>>
    /\ pc = "seed"
    /\ si = 1
    /\ it = ReturnNode
    /\ run = 1
    /\ implicit = {}
    /\ visited = <<>>
    /\ hoisted = {}
    /\ created = {}
    /\ last = [rule |-> "init", n |-> ReturnNode]
    /\ pre = [nodes |-> g.nodes, block |-> g.block, gouts |-> GraphOutputs(g),
              state |-> <<>>, implicit |-> {}, it |-> ReturnNode]
    /\ g0 = [nodes |-> g.nodes, block |-> g.block, gouts |-> GraphOutputs(g)]

\* the pass is called on g or on a graph that extends g to at most MaxTop
\* nodes in the primary block
RECURSIVE InitFrom(_)
InitFrom(g) ==
    \/ InitWith(BaseTypes, g)
    \/ /\ Len(g.block) < MaxTop
       /\ \E h \in Extensions(g, Len(BaseTypes)) : InitFrom(h)

Init ==
    \/ InitFrom(EmptyGraph)
    \/ \E tv \in TypeVectors : \E g \in TypedGraphs(Len(tv)) : InitWith(tv, g)

----------------------------------------------------------------------------
(* The pass *)

\* lines 17-32, one iteration
SeedInput ==
    /\ pc = "seed"
    /\ si <= Len(itypes)
    /\ state' = Assign(state, <<ParamNode, si>>, SeedState(itypes[si]))
    /\ si' = si + 1
    /\ last' = [rule |-> "seed", n |-> ParamNode]
    /\ pre' = Snapshot
    /\ UNCHANGED <<itypes, nodes, block, gouts, nextId, pc, it, run,
                   implicit, visited, hoisted, created, g0>>

\* line 34: it = g.nodes().begin()
BeginScan ==
    /\ pc = "seed"
    /\ si > Len(itypes)
    /\ pc' = "scan"
    /\ it' = Succ(block, ReturnNode)
    /\ last' = [rule |-> "begin", n |-> ReturnNode]
    /\ pre' = Snapshot
    /\ UNCHANGED <<itypes, nodes, block, gouts, nextId, state, si, run,
                   implicit, visited, hoisted, created, g0>>

AtNode(kinds) == pc = "scan" /\ it # ReturnNode /\ nodes[it].kind \in kinds

\* The end of one iteration of the loop of line 34: D is the graph and the
\* iterator the rule leaves, st the map, reads the values state[] was
\* evaluated on, assigned those it was assigned on; then ++it.
Commit(rule, D, st, reads, assigned, hs, cs) ==
    /\ \E d \in {D} :
         /\ nodes' = d.G.nodes
         /\ block' = d.G.block
         /\ gouts' = d.G.gouts
         /\ it' = Succ(d.G.block, d.it)
    /\ state' = st
    /\ implicit' = (implicit \cup (reads \ DOMAIN state)) \ assigned
    /\ visited' = Append(visited, it)
    /\ hoisted' = hoisted \cup hs
    /\ created' = created \cup cs
    /\ nextId' = nextId + Cardinality(cs)
    /\ last' = [rule |-> rule, n |-> it]
    /\ pre' = Snapshot
    /\ UNCHANGED <<itypes, pc, si, run, g0>>

\* lines 38-49, 74
GradOfAllZeros ==
    /\ AtNode({"prim::GradOf"})
    /\ all_zeros(state, nodes[it].inputs)
    /\ LET reads == AllOfReads(state, nodes[it].inputs)
       IN  Commit("collapse", CollapseGradOf(Graph, it, nextId),
                  Touch(state, reads), reads, {}, {}, {nextId})

\* GradOfAbort with the assertions made after the body was moved (the loop of
\* lines 58-64 placed after that of lines 66-69)
GradOfAbort_afterHoist ==
    /\ AtNode({"prim::GradOf"})
    /\ ~all_zeros(state, nodes[it].inputs)
    /\ AssertFails(state, nodes[it].inputs)
    /\ LET reads == AllOfReads(state, nodes[it].inputs)
                    \cup AssertReads(state, nodes[it].inputs)
       IN  /\ state' = Touch(state, reads)
           /\ implicit' = implicit \cup (reads \ DOMAIN state)
    /\ \E G \in {HoistBody(Graph, it)} :
         /\ nodes' = G.nodes
         /\ block' = G.block
         /\ gouts' = G.gouts
    /\ pc' = "abort"
    /\ visited' = Append(visited, it)
    /\ last' = [rule |-> "abort", n |-> it]
    /\ pre' = Snapshot
    /\ UNCHANGED <<itypes, nextId, si, it, run, hoisted, created, g0>>

\* lines 38-41, 57-64: an assertion fails, the call ends by an exception
GradOfAbort ==
    /\ AtNode({"prim::GradOf"})
    /\ ~all_zeros(state, nodes[it].inputs)
    /\ AssertFails(state, nodes[it].inputs)
    /\ LET reads == AllOfReads(state, nodes[it].inputs)
                    \cup AssertReads(state, nodes[it].inputs)
       IN  /\ state' = Touch(state, reads)
           /\ implicit' = implicit \cup (reads \ DOMAIN state)
    /\ pc' = "abort"
    /\ visited' = Append(visited, it)
    /\ last' = [rule |-> "abort", n |-> it]
    /\ pre' = Snapshot
    /\ UNCHANGED <<itypes, nodes, block, gouts, nextId, si, it, run, hoisted,
                   created, g0>>

\* lines 38-41, 57-74
GradOfSplice ==
    /\ AtNode({"prim::GradOf"})
    /\ ~all_zeros(state, nodes[it].inputs)
    /\ ~AssertFails(state, nodes[it].inputs)
    /\ LET reads == Range(nodes[it].inputs)
       IN  Commit("splice", SpliceGradOf(Graph, it),
                  Touch(state, reads), reads, {}, Range(nodes[it].body), {})

\* lines 77-83
AddZeroA ==
    /\ AtNode({"prim::AutogradAdd"})
    /\ LET a == nodes[it].inputs[1]
           b == nodes[it].inputs[2]
       IN  /\ Lookup(state, a) = "Zero"
           /\ Commit("addZeroA", DropAdd(Graph, it, b),
                     Touch(state, {a}), {a}, {}, {}, {})

\* AddZeroB redirecting the uses to b, as the branch above it does
AddZeroB_keepsB ==
    /\ AtNode({"prim::AutogradAdd"})
    /\ LET a == nodes[it].inputs[1]
           b == nodes[it].inputs[2]
       IN  /\ Lookup(state, a) # "Zero"
           /\ Lookup(state, b) = "Zero"
           /\ Commit("addZeroB", DropAdd(Graph, it, b),
                     Touch(state, {a, b}), {a, b}, {}, {}, {})

\* lines 84-87
AddZeroB ==
    /\ AtNode({"prim::AutogradAdd"})
    /\ LET a == nodes[it].inputs[1]
           b == nodes[it].inputs[2]
       IN  /\ Lookup(state, a) # "Zero"
           /\ Lookup(state, b) = "Zero"
           /\ Commit("addZeroB", DropAdd(Graph, it, a),
                     Touch(state, {a, b}), {a, b}, {}, {}, {})

\* lines 88-95
AddNonzero ==
    /\ AtNode({"prim::AutogradAdd"})
    /\ LET a == nodes[it].inputs[1]
           b == nodes[it].inputs[2]
       IN  /\ Lookup(state, a) # "Zero"
           /\ Lookup(state, b) # "Zero"
           /\ Lookup(state, a) = "Nonzero" /\ Lookup(state, b) = "Nonzero"
           /\ Commit("addNonzero", PromoteAdd(Graph, it, nextId, a, b),
                     Assign(Touch(state, {a, b}), <<nextId, 1>>, "Nonzero"),
                     {a, b}, {<<nextId, 1>>}, {}, {nextId})

\* AddElse without the assignment of line 100
AddElse_unrecorded ==
    /\ AtNode({"prim::AutogradAdd"})
    /\ LET a == nodes[it].inputs[1]
           b == nodes[it].inputs[2]
       IN  /\ Lookup(state, a) # "Zero"
           /\ Lookup(state, b) # "Zero"
           /\ ~(Lookup(state, a) = "Nonzero" /\ Lookup(state, b) = "Nonzero")
           /\ Commit("addElse", [G |-> Graph, it |-> it],
                     Touch(state, {a, b}), {a, b}, {}, {}, {})

\* AddElse asserting that no operand is Unknown, as the GradOf case does
AddElse_asserts ==
    /\ AtNode({"prim::AutogradAdd"})
    /\ LET a == nodes[it].inputs[1]
           b == nodes[it].inputs[2]
       IN  /\ Lookup(state, a) # "Zero"
           /\ Lookup(state, b) # "Zero"
           /\ ~(Lookup(state, a) = "Nonzero" /\ Lookup(state, b) = "Nonzero")
           /\ state' = Touch(state, {a, b})
           /\ implicit' = implicit \cup ({a, b} \ DOMAIN state)
    /\ pc' = "abort"
    /\ visited' = Append(visited, it)
    /\ last' = [rule |-> "addElse", n |-> it]
    /\ pre' = Snapshot
    /\ UNCHANGED <<itypes, nodes, block, gouts, nextId, si, it, run, hoisted,
                   created, g0>>

\* lines 96-101
AddElse ==
    /\ AtNode({"prim::AutogradAdd"})
    /\ LET a == nodes[it].inputs[1]
           b == nodes[it].inputs[2]
       IN  /\ Lookup(state, a) # "Zero"
           /\ Lookup(state, b) # "Zero"
           /\ ~(Lookup(state, a) = "Nonzero" /\ Lookup(state, b) = "Nonzero")
           /\ Commit("addElse", [G |-> Graph, it |-> it],
                     Assign(Touch(state, {a, b}), <<it, 1>>, "Unknown"),
                     {a, b}, {<<it, 1>>}, {}, {})

\* ZeroTag without the assignment of line 104
ZeroTag_unrecorded ==
    /\ AtNode({"prim::AutogradZero"})
    /\ Commit("zero", [G |-> Graph, it |-> it], state, {}, {}, {}, {})

\* ZeroTag destroying a node whose output has no use
ZeroTag_sweeps ==
    /\ AtNode({"prim::AutogradZero"})
    /\ Commit("zero",
              IF <<it, 1>> \in UsedValues(Graph)
              THEN [G |-> Graph, it |-> it]
              ELSE destroyCurrent(Graph, it),
              Assign(state, <<it, 1>>, "Zero"), {}, {<<it, 1>>}, {}, {})

\* lines 103-105
ZeroTag ==
    /\ AtNode({"prim::AutogradZero"})
    /\ Commit("zero", [G |-> Graph, it |-> it],
              Assign(state, <<it, 1>>, "Zero"), {}, {<<it, 1>>}, {}, {})

\* Default assigning Zero, as the case above it does
Default_zero ==
    /\ pc = "scan" /\ it # ReturnNode
    /\ nodes[it].kind \notin {"prim::GradOf", "prim::AutogradAdd", "prim::AutogradZero"}
    /\ Commit("default", [G |-> Graph, it |-> it],
              AssignAll(state, Outputs(nodes, it), "Zero", 1),
              {}, Range(Outputs(nodes, it)), {}, {})

\* lines 106-110
Default ==
    /\ pc = "scan" /\ it # ReturnNode
    /\ nodes[it].kind \notin {"prim::GradOf", "prim::AutogradAdd", "prim::AutogradZero"}
    /\ Commit("default", [G |-> Graph, it |-> it],
              AssignAll(state, Outputs(nodes, it), "Unknown", 1),
              {}, Range(Outputs(nodes, it)), {}, {})

\* line 34: it == g.nodes().end(), the call returns
Return ==
    /\ pc = "scan"
    /\ it = ReturnNode
    /\ pc' = "done"
    /\ last' = [rule |-> "return", n |-> ReturnNode]
    /\ pre' = Snapshot
    /\ UNCHANGED <<itypes, nodes, block, gouts, nextId, state, si, it, run,
                   implicit, visited, hoisted, created, g0>>

Next ==
    \/ SeedInput
    \/ BeginScan
    \/ GradOfAllZeros
    \/ GradOfAbort
    \/ GradOfSplice
    \/ AddZeroA
    \/ AddZeroB
    \/ AddNonzero
    \/ AddElse
    \/ ZeroTag
    \/ Default
    \/ Return

Spec == Init /\ [][Next]_vars

\* the call is sequential code: it takes its next step as long as it has one
LiveSpec == Init /\ [][Next]_vars /\ WF_vars(Next)

\* the pass is called again on the graph the first call returned: the map is
\* a local of the call
Rerun ==
    /\ pc = "done"
    /\ run = 1
    /\ run' = 2
    /\ pc' = "seed"
    /\ si' = 1
    /\ it' = ReturnNode
    /\ state' = <<>>
    /\ implicit' = {}
    /\ visited' = <<>>
    /\ hoisted' = {}
    /\ created' = {}
    /\ last' = [rule |-> "rerun", n |-> ReturnNode]
    /\ pre' = Snapshot
    /\ UNCHANGED <<itypes, nodes, block, gouts, nextId, g0>>

Next2 == Next \/ Rerun

Spec2 == Init /\ [][Next2]_vars

----------------------------------------------------------------------------
(* What the last step did, read off the history variables *)

\* the last step was an iteration of the loop of line 34, on node last.n
Dispatched == last.rule \notin {"init", "seed", "begin", "return", "rerun"}

\* the dispatched node as it was before the step, and its position
PreNode == pre.nodes[last.n]

PreIndex == IndexOf(pre.block, last.n)

\* the value state[v] had when the node was dispatched
PreClass(v) == Lookup(pre.state, v)

PreClasses == {PreClass(PreNode.inputs[i]) : i \in DOMAIN PreNode.inputs}

DispatchedKind(k) == Dispatched /\ PreNode.kind = k

\* s with every value in the domain of R replaced by its image
Map(s, R) == [i \in DOMAIN s |-> IF s[i] \in DOMAIN R THEN R[s[i]] ELSE s[i]]

\* every input slot that was there before the step and still is reads what it
\* read, but for the values in the domain of R, which it reads the image of
UsesRedirected(R) ==
    /\ gouts = Map(pre.gouts, R)
    /\ \A m \in DOMAIN nodes \cap DOMAIN pre.nodes :
         nodes[m] = [pre.nodes[m] EXCEPT !.inputs = Map(@, R), !.bouts = Map(@, R)]

GraphUnchanged == nodes = pre.nodes /\ block = pre.block /\ gouts = pre.gouts

\* the primary block before the step with mid in place of the dispatched node
BlockWith(mid) ==
    SubSeq(pre.block, 1, PreIndex - 1) \o mid
        \o SubSeq(pre.block, PreIndex + 1, Len(pre.block))

NewNodes == DOMAIN nodes \ DOMAIN pre.nodes

----------------------------------------------------------------------------
(* C1 *)

\* C1 (zero-region collapse): when a prim::GradOf node is dispatched with
\* every input classified Zero (an empty input list included), the step
\* removes the node and its body, creates exactly one node, a
\* prim::AutogradZero that takes the place right after the node's former
\* position, and every use of every output of the node reads the output of
\* that node; and no GradOf node that was dispatched without an abort is in
\* the graph afterwards.
C1_ZeroRegionCollapse ==
    /\ (DispatchedKind("prim::GradOf") /\ PreClasses \subseteq {"Zero"}) =>
         /\ last.n \notin DOMAIN nodes
         /\ last.n \notin Range(block)
         /\ Cardinality(NewNodes) = 1
         /\ DOMAIN nodes \cap DOMAIN pre.nodes
              = DOMAIN pre.nodes \ Subtree(pre.nodes, last.n)
         /\ \A z \in NewNodes :
              /\ nodes[z] = MkNode("prim::AutogradZero", <<>>, 1, <<>>, <<>>)
              /\ block = BlockWith(<<z>>)
              /\ UsesRedirected([v \in Range(Outputs(pre.nodes, last.n)) |-> <<z, 1>>])
    /\ \A m \in Range(visited) \cap DOMAIN nodes :
         nodes[m].kind = "prim::GradOf" => pc = "abort" /\ m = last.n

\* a GradOf node with no input and two outputs was collapsed, and a later node
\* and the return node read the new zero
C1_Witness ==
    /\ DispatchedKind("prim::GradOf")
    /\ PreNode.inputs = <<>>
    /\ PreNode.nout = 2
    /\ \E z \in NewNodes :
         /\ <<z, 1>> \in Range(gouts)
         /\ \E m \in Range(block) : <<z, 1>> \in Range(nodes[m].inputs)

----------------------------------------------------------------------------
(* C2 *)

\* the dispatched GradOf node is gone, its body sits in its place in the
\* primary block in the order it had, and the uses of its i-th output read
\* the i-th output of its body
Spliced ==
    /\ DOMAIN nodes = DOMAIN pre.nodes \ {last.n}
    /\ block = BlockWith(PreNode.body)
    /\ UsesRedirected([v \in Range(Outputs(pre.nodes, last.n)) |-> PreNode.bouts[v[2]]])

\* C2 as stated (live-region splice): a prim::GradOf node dispatched with at
\* least one input classified Nonzero is spliced.
C2_Original ==
    (DispatchedKind("prim::GradOf") /\ "Nonzero" \in PreClasses) => Spliced

\* C2 as amended: a prim::GradOf node dispatched with at least one input
\* classified Nonzero and no input classified Unknown is spliced.
C2_LiveRegionSplice ==
    (DispatchedKind("prim::GradOf") /\ "Nonzero" \in PreClasses
        /\ "Unknown" \notin PreClasses) => Spliced

\* a GradOf node of a Nonzero input, with a body of two nodes and two
\* outputs, was spliced, and a node that read its first output reads the
\* first output of the body
C2_Witness ==
    /\ DispatchedKind("prim::GradOf")
    /\ "Nonzero" \in PreClasses
    /\ "Unknown" \notin PreClasses
    /\ Len(PreNode.body) = 2
    /\ PreNode.nout = 2
    /\ \E m \in Range(block) \ Range(PreNode.body) :
         /\ <<last.n, 1>> \in Range(pre.nodes[m].inputs)
         /\ PreNode.bouts[1] \in Range(nodes[m].inputs)

----------------------------------------------------------------------------
(* C3 *)

\* the dispatched node is gone, no node was created, and the uses of its
\* output read keep
Dropped(keep) ==
    /\ DOMAIN nodes = DOMAIN pre.nodes \ {last.n}
    /\ block = BlockWith(<<>>)
    /\ UsesRedirected(<<last.n, 1>> :> keep)

\* C3 (add-with-zero identity): when a prim::AutogradAdd(a, b) is dispatched
\* with a classified Zero, the uses of its output read b, the node is
\* deleted and no node is created; otherwise, with b classified Zero, the
\* uses read a, the node is deleted and no node is created.
C3_AddWithZero ==
    DispatchedKind("prim::AutogradAdd") =>
        LET a == PreNode.inputs[1]
            b == PreNode.inputs[2]
        IN  /\ PreClass(a) = "Zero" => Dropped(b)
            /\ (PreClass(a) # "Zero" /\ PreClass(b) = "Zero") => Dropped(a)

\* an add of a value not Zero and a Zero value was dropped, and a later node
\* now reads a
C3_Witness ==
    /\ DispatchedKind("prim::AutogradAdd")
    /\ PreClass(PreNode.inputs[1]) # "Zero"
    /\ PreClass(PreNode.inputs[2]) = "Zero"
    /\ \E m \in Range(pre.block) :
         /\ <<last.n, 1>> \in Range(pre.nodes[m].inputs)
         /\ m \in DOMAIN nodes
         /\ PreNode.inputs[1] \in Range(nodes[m].inputs)

----------------------------------------------------------------------------
(* C4 *)

\* C4 (add-with-two-nonzero promotion): when a prim::AutogradAdd(a, b) is
\* dispatched with a and b classified Nonzero, exactly one node is created,
\* a plain add of (a, b) at the position of the guarded add, its output is
\* assigned Nonzero in the map, the uses of the guarded add read the new
\* output, and the guarded add is removed.
C4_AddPromotion ==
    (DispatchedKind("prim::AutogradAdd")
        /\ PreClass(PreNode.inputs[1]) = "Nonzero"
        /\ PreClass(PreNode.inputs[2]) = "Nonzero") =>
        /\ Cardinality(NewNodes) = 1
        /\ DOMAIN nodes \cap DOMAIN pre.nodes = DOMAIN pre.nodes \ {last.n}
        /\ \A z \in NewNodes :
             /\ nodes[z] = MkNode("aten::add", PreNode.inputs, 1, <<>>, <<>>)
             /\ block = BlockWith(<<z>>)
             /\ <<z, 1>> \in DOMAIN state \ implicit
             /\ state[<<z, 1>>] = "Nonzero"
             /\ UsesRedirected(<<last.n, 1>> :> <<z, 1>>)

\* an add of two distinct Nonzero values was promoted, and the return node,
\* which read the guarded add, reads the plain add
C4_Witness ==
    /\ DispatchedKind("prim::AutogradAdd")
    /\ PreClass(PreNode.inputs[1]) = "Nonzero"
    /\ PreClass(PreNode.inputs[2]) = "Nonzero"
    /\ PreNode.inputs[1] # PreNode.inputs[2]
    /\ <<last.n, 1>> \in Range(pre.gouts)
    /\ \E z \in NewNodes : <<z, 1>> \in Range(gouts)

----------------------------------------------------------------------------
(* C5 *)

\* C5 (add conservatism): when a prim::AutogradAdd(a, b) is dispatched with a
\* classified Unknown and b not Zero, or a classified Nonzero and b
\* classified Unknown, the graph is left as it was and the output of the
\* node is assigned Unknown.
C5_AddConservatism ==
    (DispatchedKind("prim::AutogradAdd")
        /\ \/ PreClass(PreNode.inputs[1]) = "Unknown" /\ PreClass(PreNode.inputs[2]) # "Zero"
           \/ PreClass(PreNode.inputs[1]) = "Nonzero" /\ PreClass(PreNode.inputs[2]) = "Unknown") =>
        /\ GraphUnchanged
        /\ <<last.n, 1>> \in DOMAIN state \ implicit
        /\ state[<<last.n, 1>>] = "Unknown"

\* an add of a Nonzero and an Unknown value, read by a later node, was left
\* in place
C5_Witness ==
    /\ DispatchedKind("prim::AutogradAdd")
    /\ PreClass(PreNode.inputs[1]) = "Nonzero"
    /\ PreClass(PreNode.inputs[2]) = "Unknown"
    /\ \E m \in Range(block) : <<last.n, 1>> \in Range(nodes[m].inputs)

----------------------------------------------------------------------------
(* C6 *)

\* C6 (fatal precondition): when a prim::GradOf node is dispatched with an
\* input classified Unknown and an input not classified Zero, the call ends
\* by the failed assertion and the graph is as it was: neither the splice nor
\* the collapse was done.
C6_FatalPrecondition ==
    (DispatchedKind("prim::GradOf")
        /\ "Unknown" \in PreClasses
        /\ PreClasses \ {"Zero"} # {}) =>
        /\ pc = "abort"
        /\ GraphUnchanged

\* a GradOf node of a Nonzero input followed by an Unknown input aborted
C6_Witness ==
    /\ DispatchedKind("prim::GradOf")
    /\ Len(PreNode.inputs) = 2
    /\ PreClass(PreNode.inputs[1]) = "Nonzero"
    /\ PreClass(PreNode.inputs[2]) = "Unknown"
    /\ pc = "abort"

----------------------------------------------------------------------------
(* C7 *)

\* C7 as stated (idempotence): a second call of the pass on the graph a first
\* call returned changes nothing: no step of it creates, deletes or moves a
\* node or redirects a use.
C7_Original == (run = 2 /\ Dispatched) => GraphUnchanged

\* every node in the body of a GradOf node of the graph the first call was
\* given is an opaque operation
OpaqueBodies ==
    \A m \in DOMAIN g0.nodes : \A b \in Range(g0.nodes[m].body) :
        g0.nodes[b].kind \notin {"prim::GradOf", "prim::AutogradAdd", "prim::AutogradZero"}

\* What does hold: if the bodies of the GradOf nodes of the input graph hold
\* opaque operations only (no GradOf, AutogradAdd or AutogradZero node), a
\* second call of the pass on the graph a first call returned changes
\* nothing.
C7_Idempotence == (run = 2 /\ Dispatched /\ OpaqueBodies) => GraphUnchanged

\* the second call dispatches a guarded add that the first call left in
\* place and that reads the output of a node the first call spliced out of a
\* body
C7_Witness ==
    /\ run = 2
    /\ OpaqueBodies
    /\ DispatchedKind("prim::AutogradAdd")
    /\ \E v \in Range(PreNode.inputs) : \E m \in DOMAIN g0.nodes :
         v[1] \in Range(g0.nodes[m].body)

----------------------------------------------------------------------------
(* C8 *)

\* C8 as stated (classified before read): every value whose classification
\* the dispatch reads has an entry that was assigned; no entry of the map was
\* made by the read itself.
C8_Original == implicit = {}

\* v has an entry that was assigned, or is an output of a node this call
\* moved out of the body of a GradOf node
AssignedOrHoisted(v) == v \in DOMAIN pre.state \ pre.implicit \/ v[1] \in hoisted

\* What does hold: every input of a dispatched GradOf node and both operands
\* of a dispatched guarded add have an entry that was assigned by seeding or
\* by an earlier rule, except the outputs of the nodes spliced out of a
\* GradOf body, which no rule classifies: only for those does a read make
\* the entry.
C8_ClassifiedBeforeRead ==
    /\ \A v \in implicit : v[1] \in hoisted
    /\ (Dispatched /\ PreNode.kind \in {"prim::GradOf", "prim::AutogradAdd"}) =>
         \A v \in Range(PreNode.inputs) : AssignedOrHoisted(v)

\* a guarded add was dispatched whose first operand is the unclassified
\* output of a spliced opaque node and whose second operand was seeded
C8_Witness ==
    /\ DispatchedKind("prim::AutogradAdd")
    /\ PreNode.inputs[1] \notin DOMAIN pre.state
    /\ PreNode.inputs[1][1] \in hoisted
    /\ pre.nodes[PreNode.inputs[1][1]].kind = "aten::op"
    /\ PreNode.inputs[2][1] = ParamNode

----------------------------------------------------------------------------
(* C9 *)

\* v had no assigned entry when the node was dispatched
Unclassified(v) == v \notin DOMAIN pre.state \/ v \in pre.implicit

\* the operands of the dispatched add that state[] was evaluated on
AddReads ==
    IF PreClass(PreNode.inputs[1]) = "Zero" THEN {PreNode.inputs[1]}
    ELSE Range(PreNode.inputs)

\* C9 as stated (lookup default): a lookup of a value no rule classified
\* yields Unknown; a guarded add that reads such a value is left in place,
\* and a GradOf node that reads one is not spliced.
C9_Original ==
    /\ \A v \in implicit : state[v] = "Unknown"
    /\ (DispatchedKind("prim::AutogradAdd") /\ \E v \in AddReads : Unclassified(v)) =>
         /\ GraphUnchanged
         /\ state[<<last.n, 1>>] = "Unknown"
    /\ (DispatchedKind("prim::GradOf") /\ \E v \in Range(PreNode.inputs) : Unclassified(v)) =>
         last.n \in DOMAIN nodes

\* v had an entry that was assigned Unknown
KnownUnknown(v) == ~Unclassified(v) /\ pre.state[v] = "Unknown"

\* v had no assigned entry, or one that was assigned Nonzero
ReadsNonzero(v) == Unclassified(v) \/ pre.state[v] = "Nonzero"

\* What does hold: a lookup of a value no rule classified yields Nonzero, the
\* first enumerator; a guarded add of such a value and a value that is
\* unclassified too or Nonzero is replaced by a plain add, and a GradOf node
\* that reads such a value and no value assigned Unknown is spliced.
C9_LookupDefault ==
    /\ \A v \in implicit : state[v] = "Nonzero"
    /\ (DispatchedKind("prim::AutogradAdd")
          /\ (\E v \in Range(PreNode.inputs) : Unclassified(v))
          /\ (\A v \in Range(PreNode.inputs) : ReadsNonzero(v))) =>
         /\ last.n \notin DOMAIN nodes
         /\ \E z \in NewNodes :
              nodes[z] = MkNode("aten::add", PreNode.inputs, 1, <<>>, <<>>)
    /\ (DispatchedKind("prim::GradOf")
          /\ (\E v \in Range(PreNode.inputs) : Unclassified(v))
          /\ (\A v \in Range(PreNode.inputs) : ~KnownUnknown(v))) =>
         Spliced

\* a GradOf node whose input is the unclassified output of a spliced opaque
\* node was spliced
C9_Witness ==
    /\ DispatchedKind("prim::GradOf")
    /\ \E v \in Range(PreNode.inputs) :
         /\ v \notin DOMAIN pre.state
         /\ v[1] \in hoisted
         /\ pre.nodes[v[1]].kind = "aten::op"
    /\ last.n \notin DOMAIN nodes
    /\ PreNode.body # <<>>

----------------------------------------------------------------------------
(* C10 *)

\* the classification C10 gives a graph input of type tp
SeedOfType(tp) ==
    IF tp.kind = "TensorType" /\ tp.zero = "true" THEN "Zero"
    ELSE IF tp.kind \in {"TensorType", "TensorSubtype", "TensorList"} THEN "Nonzero"
    ELSE "Unknown"

\* the graph inputs the seeding loop has passed
Seeded == {j \in 1..Len(itypes) : pc # "seed" \/ j < si}

\* C10 (seeding): every graph input the seeding loop has passed has one
\* assigned classification, that of its type: Zero iff a TensorType whose
\* flag is present and true, Nonzero for another TensorType or subtype of
\* tensor or of list of tensors, Unknown otherwise; two inputs of the same
\* type have the same classification; during seeding the map holds nothing
\* else, and a seeding step leaves the graph as it was.
C10_Seeding ==
    /\ \A j \in Seeded :
         /\ <<ParamNode, j>> \in DOMAIN state \ implicit
         /\ state[<<ParamNode, j>>] = SeedOfType(itypes[j])
         /\ state[<<ParamNode, j>>] = "Zero"
              <=> (itypes[j] \in TensorTypes /\ itypes[j].zero = "true")
    /\ \A i, j \in Seeded :
         itypes[i] = itypes[j] => state[<<ParamNode, i>>] = state[<<ParamNode, j>>]
    /\ pc = "seed" => DOMAIN state = {<<ParamNode, j>> : j \in Seeded}
    /\ last.rule = "seed" => GraphUnchanged

\* the loop has seeded a TensorType with the flag false, one with no flag, a
\* list of tensors and a type that is no tensor
C10_Witness ==
    /\ pc = "scan"
    /\ last.rule = "begin"
    /\ \E i, j \in Seeded :
         /\ itypes[i] = [kind |-> "TensorType", zero |-> "false"]
         /\ itypes[j] = [kind |-> "TensorList", zero |-> "absent"]
         /\ state[<<ParamNode, i>>] = "Nonzero"
         /\ state[<<ParamNode, j>>] = "Nonzero"

----------------------------------------------------------------------------
(* C11 *)

GradOfNodes(ns, blk) == {m \in Range(blk) : ns[m].kind = "prim::GradOf"}

\* C11 as stated (region removal): when the call returns normally, the
\* primary block holds no prim::GradOf node, one that was nested in the body
\* of another GradOf node included.
C11_Original == pc = "done" => GradOfNodes(nodes, block) = {}

\* What does hold when the call returns normally: no prim::GradOf node that
\* was in the primary block of the input graph is left, and the GradOf nodes
\* of the primary block are those the splice of a GradOf node moved out of
\* its body, none of which the scan dispatched.
TopLevelRegionsRemoved ==
    pc = "done" =>
        /\ GradOfNodes(g0.nodes, g0.block) \cap DOMAIN nodes = {}
        /\ GradOfNodes(nodes, block) =
             {m \in hoisted : g0.nodes[m].kind = "prim::GradOf"}
        /\ GradOfNodes(nodes, block) \cap Range(visited) = {}

----------------------------------------------------------------------------
(* C12 *)

\* the last step dispatched a GradOf node that is not all Zero and has an
\* input classified Unknown
FaultingRegion ==
    /\ DispatchedKind("prim::GradOf")
    /\ PreClasses \ {"Zero"} # {}
    /\ "Unknown" \in PreClasses

\* the scan is at the end of the primary block or at a node of it
CursorInBlock == it = ReturnNode \/ (it \in Range(block) /\ it \in DOMAIN nodes)

\* C12 (single failure condition and termination): the call stops, after no
\* more dispatch steps than the input graph has nodes in its primary block
\* plus the nodes the call creates; it stops by a failed assertion only at a
\* GradOf node that is not all Zero and has an input classified Unknown;
\* until it stops the cursor is at a node of the primary block or at its end,
\* and when no such GradOf node is dispatched the cursor reaches the end and
\* the call returns.
C12_Termination ==
    /\ <>(pc = "done" \/ (pc = "abort" /\ FaultingRegion))
    /\ [](pc = "abort" => FaultingRegion)
    /\ [](pc = "done" => it = ReturnNode /\ ~FaultingRegion)
    /\ [](pc = "scan" => CursorInBlock)
    /\ [](Len(visited) <= Len(g0.block) + Cardinality(created))

\* the call returned after more dispatch steps than the input graph had
\* nodes in its primary block, the last of which deleted the current node
C12_Witness ==
    /\ pc = "done"
    /\ Len(g0.block) = MaxTop
    /\ Len(visited) > Len(g0.block)
    /\ visited[Len(visited)] \notin DOMAIN nodes

----------------------------------------------------------------------------
(* C13 *)

InOriginalBlock(m) == m \in Range(g0.block)

IsPrefix(s, t) == Len(s) <= Len(t) /\ s = SubSeq(t, 1, Len(s))

\* the node that followed the dispatched node in the primary block
PreFollower == Succ(pre.block, last.n)

\* C13 (scan order under deletion): no node is dispatched twice; the nodes
\* of the primary block of the input graph are dispatched in block order,
\* all of them when the call returns; a node is dispatched after every node
\* of that block whose output it reads; and after each dispatch step, the
\* ones that delete the current node included, the cursor is on the node
\* that followed the dispatched node (after a collapse, on the new zero, which
\* that node follows).
C13_ScanOrder ==
    /\ \A i, j \in DOMAIN visited : i # j => visited[i] # visited[j]
    /\ IsPrefix(SelectSeq(visited, InOriginalBlock), g0.block)
    /\ pc = "done" => SelectSeq(visited, InOriginalBlock) = g0.block
    /\ Dispatched =>
         \A v \in Range(PreNode.inputs) :
             InOriginalBlock(v[1]) =>
                 v[1] \in Range(SubSeq(visited, 1, Len(visited) - 1))
    /\ (Dispatched /\ pc = "scan") =>
         IF last.rule = "collapse"
         THEN it \in NewNodes /\ Succ(block, it) = PreFollower
         ELSE it = PreFollower

\* the node dispatched last followed, in the input graph, a node that the
\* step before deleted, and it reads a value in place of that node's output
C13_Witness ==
    /\ Dispatched
    /\ Len(visited) >= 2
    /\ visited[Len(visited) - 1] \notin DOMAIN pre.nodes
    /\ \E i \in 1..(Len(g0.block) - 1) :
         /\ g0.block[i] = visited[Len(visited) - 1]
         /\ g0.block[i + 1] = last.n
         /\ <<g0.block[i], 1>> \in Range(g0.nodes[last.n].inputs)

----------------------------------------------------------------------------
(* C14 *)

PlainAdds == {z \in created : z \in DOMAIN nodes /\ nodes[z].kind = "aten::add"}

\* C14 (spliced content is not dispatched): no node that a splice moved out
\* of the body of a GradOf node is dispatched by the call, whatever its
\* kind; after a splice the cursor is on the node that followed the GradOf
\* node in the primary block; and no plain add the call created is
\* dispatched, the cursor being, after the step that created it, on the node
\* that followed the guarded add.
C14_SplicedNotDispatched ==
    /\ hoisted \cap Range(visited) = {}
    /\ PlainAdds \cap Range(visited) = {}
    /\ (last.rule = "splice" /\ pc = "scan") =>
         /\ Range(PreNode.body) \subseteq hoisted
         /\ it = PreFollower
         /\ it \notin Range(PreNode.body)
    /\ (last.rule = "addNonzero" /\ pc = "scan") =>
         /\ it = PreFollower
         /\ it \notin NewNodes

\* a node of the input primary block was dispatched that came after a
\* GradOf, AutogradAdd or AutogradZero node which a splice had moved out of
\* a body and which was not dispatched
C14_Witness ==
    /\ Dispatched
    /\ InOriginalBlock(last.n)
    /\ \E m \in hoisted \cap Range(pre.block) :
         /\ pre.nodes[m].kind \in {"prim::GradOf", "prim::AutogradAdd", "prim::AutogradZero"}
         /\ IndexOf(pre.block, m) < PreIndex
         /\ m \notin Range(visited)

----------------------------------------------------------------------------
(* C15 *)

\* C15 (abort leaves the faulting region intact): when the call ends by the
\* failed assertion, the GradOf node it was dispatching is in the primary
\* block where it was, with the inputs, outputs and body it had; the nodes
\* of its body are in no other block; every use of its outputs is as it was;
\* the step created and deleted no node; and the call takes no further step:
\* it does not return.
C15_AbortIntact ==
    pc = "abort" =>
        /\ last.rule = "abort"
        /\ it = last.n
        /\ last.n \in Range(block)
        /\ block = pre.block
        /\ nodes[last.n] = PreNode
        /\ Range(PreNode.body) \cap Range(block) = {}
        /\ Range(PreNode.body) \subseteq DOMAIN nodes
        /\ \A m \in DOMAIN pre.nodes : m \in DOMAIN nodes /\ nodes[m] = pre.nodes[m]
        /\ NewNodes = {}
        /\ gouts = pre.gouts
        /\ ~ENABLED Next

\* the call aborted at a GradOf node with a body, the output of which the
\* return node reads, after an earlier step had rewritten the graph
C15_Witness ==
    /\ pc = "abort"
    /\ Len(visited) = 2
    /\ [nodes |-> nodes, block |-> block, gouts |-> gouts] # g0
    /\ nodes[last.n].body # <<>>
    /\ <<last.n, 1>> \in Range(gouts)

----------------------------------------------------------------------------
(* C16 *)

SpecialKinds == {"prim::GradOf", "prim::AutogradAdd", "prim::AutogradZero"}

\* C16 (conservative default): when a node of a kind other than GradOf,
\* AutogradAdd and AutogradZero is dispatched, each of its outputs is
\* assigned Unknown, the graph is as it was (no node created, deleted or
\* moved, no use redirected), the classification of every other value is as
\* it was, and no entry is made for another value.
C16_ConservativeDefault ==
    (Dispatched /\ PreNode.kind \notin SpecialKinds) =>
        LET outs == Range(Outputs(pre.nodes, last.n))
        IN  /\ GraphUnchanged
            /\ \A v \in outs :
                 v \in DOMAIN state \ implicit /\ state[v] = "Unknown"
            /\ DOMAIN state = DOMAIN pre.state \cup outs
            /\ \A v \in DOMAIN pre.state \ outs : state[v] = pre.state[v]
            /\ implicit = pre.implicit \ outs

\* an opaque node of two outputs was dispatched after a node of the primary
\* block had been classified
C16_Witness ==
    /\ Dispatched
    /\ PreNode.kind \notin SpecialKinds
    /\ PreNode.nout = 2
    /\ Len(visited) = 2
    /\ state[<<last.n, 1>>] = "Unknown"
    /\ state[<<last.n, 2>>] = "Unknown"
    /\ \E v \in DOMAIN pre.state : v[1] \notin {ParamNode, last.n}

----------------------------------------------------------------------------
(* C17 *)

ZeroLiterals(ns, blk) == {m \in Range(blk) : ns[m].kind = "prim::AutogradZero"}

\* C17 (zero-literal tagging): when a prim::AutogradZero node is dispatched,
\* its output is assigned Zero, the graph is as it was, the node being where
\* it was whether its output has a use or not, and no other entry of the map
\* changes; and no step removes a prim::AutogradZero node from the primary
\* block.
C17_ZeroTagging ==
    /\ DispatchedKind("prim::AutogradZero") =>
         /\ GraphUnchanged
         /\ last.n \in Range(block)
         /\ <<last.n, 1>> \in DOMAIN state \ implicit
         /\ state[<<last.n, 1>>] = "Zero"
         /\ DOMAIN state = DOMAIN pre.state \cup {<<last.n, 1>>}
         /\ \A v \in DOMAIN pre.state \ {<<last.n, 1>>} : state[v] = pre.state[v]
    /\ \A m \in ZeroLiterals(pre.nodes, pre.block) :
         /\ m \in Range(block)
         /\ m \in DOMAIN nodes
         /\ nodes[m] = pre.nodes[m]

\* the call returned from a graph in which a zero literal, dispatched, has
\* no use
C17_Witness ==
    /\ pc = "done"
    /\ \E m \in ZeroLiterals(nodes, block) :
         /\ m \in Range(visited)
         /\ <<m, 1>> \notin UsedValues(Graph)
         /\ state[<<m, 1>>] = "Zero"

----------------------------------------------------------------------------
(* C18 *)

\* the zero literals the call created (one per collapse) that are in the graph
CreatedZeros ==
    {z \in created : z \in DOMAIN nodes /\ nodes[z].kind = "prim::AutogradZero"}

\* when the node was dispatched, v was a graph input seeded Zero or the
\* output of a zero literal (the former outputs of a collapsed GradOf node
\* are read as the output of the zero literal the collapse inserted)
ZeroSource(v) ==
    \/ v[1] = ParamNode /\ pre.state[v] = "Zero"
    \/ v[1] # ParamNode /\ pre.nodes[v[1]].kind = "prim::AutogradZero"

\* the same, the zero literal being one the scan dispatched
DispatchedZeroSource(v) ==
    ZeroSource(v) /\ (v[1] # ParamNode => v[1] \in Range(visited))

\* the zero literal a collapse inserts is the next node dispatched, and its
\* output is assigned Zero by then
ZeroDispatchedNext ==
    /\ (last.rule = "collapse" /\ pc = "scan") => it \in NewNodes
    /\ \A z \in CreatedZeros :
         \/ it = z /\ last.rule = "collapse"
         \/ /\ z \in Range(visited)
            /\ <<z, 1>> \in DOMAIN state \ implicit
            /\ state[<<z, 1>>] = "Zero"

\* C18 as stated (zero propagation through a collapsed region): the zero
\* literal a collapse inserts is the next node dispatched and its output is
\* assigned Zero; a GradOf node dispatched later, all of whose inputs are
\* graph inputs seeded Zero, outputs of zero literals or former outputs of
\* collapsed GradOf nodes, is collapsed; and an AutogradAdd node dispatched
\* later with such an operand is removed by the add-with-zero rule.
C18_Original ==
    /\ ZeroDispatchedNext
    /\ (DispatchedKind("prim::GradOf")
          /\ \A v \in Range(PreNode.inputs) : ZeroSource(v)) =>
         last.rule = "collapse"
    /\ (DispatchedKind("prim::AutogradAdd")
          /\ \E v \in Range(PreNode.inputs) : ZeroSource(v)) =>
         last.rule \in {"addZeroA", "addZeroB"}

\* What does hold: the same with the zero literals that the scan dispatched,
\* which leaves out the ones a splice moved out of a body.
ZeroPropagation ==
    /\ ZeroDispatchedNext
    /\ (DispatchedKind("prim::GradOf")
          /\ \A v \in Range(PreNode.inputs) : DispatchedZeroSource(v)) =>
         last.rule = "collapse" /\ last.n \notin DOMAIN nodes
    /\ (DispatchedKind("prim::AutogradAdd")
          /\ \E v \in Range(PreNode.inputs) : DispatchedZeroSource(v)) =>
         last.rule \in {"addZeroA", "addZeroB"} /\ last.n \notin DOMAIN nodes

----------------------------------------------------------------------------
(* C19 *)

\* v is the output of a zero literal of the graph ns
ZeroLiteralOutput(ns, v) ==
    v[1] # ParamNode /\ v[1] \in DOMAIN ns /\ ns[v[1]].kind = "prim::AutogradZero"

\* C19 as stated (plain-add soundness): when a guarded add is replaced by a
\* plain add, neither operand is the output of a zero literal; no value
\* whose classification reads Nonzero is the output of a zero literal, one
\* that a splice moved out of a body into the primary block included.
C19_Original ==
    /\ last.rule = "addNonzero" =>
         \A v \in Range(PreNode.inputs) : ~ZeroLiteralOutput(pre.nodes, v)
    /\ \A z \in PlainAdds :
         \A v \in Range(nodes[z].inputs) : ~ZeroLiteralOutput(nodes, v)
    /\ \A v \in DOMAIN state :
         state[v] = "Nonzero" => ~ZeroLiteralOutput(nodes, v)

\* What does hold: a zero literal whose output is an operand of a plain add,
\* or reads Nonzero, is one that a splice moved out of a body.
PlainAddOperands ==
    /\ \A z \in PlainAdds :
         \A v \in Range(nodes[z].inputs) :
             ZeroLiteralOutput(nodes, v) => v[1] \in hoisted
    /\ \A v \in DOMAIN state :
         (state[v] = "Nonzero" /\ ZeroLiteralOutput(nodes, v)) =>
             v[1] \in hoisted /\ v \in implicit

----------------------------------------------------------------------------
(* C20 *)

\* v is a graph input, or an output of a live node among the first k nodes
\* of the block blk
DefinedIn(v, blk, k) ==
    \/ v[1] = ParamNode /\ v[2] \in 1..Len(itypes)
    \/ /\ v[1] \in DOMAIN nodes
       /\ v[2] \in 1..nodes[v[1]].nout
       /\ \E j \in 1..k : blk[j] = v[1]

\* the nodes of the primary block read graph inputs and outputs of nodes
\* that precede them in it, and so does the return node
PrimaryBlockWellFormed ==
    /\ Range(block) \subseteq DOMAIN nodes
    /\ \A i, j \in DOMAIN block : i # j => block[i] # block[j]
    /\ \A i \in DOMAIN block :
         \A v \in Range(nodes[block[i]].inputs) : DefinedIn(v, block, i - 1)
    /\ \A v \in Range(gouts) : DefinedIn(v, block, Len(block))

\* no input slot of a live node or of a return node reads an output of a node
\* that was destroyed
NoDanglingUse ==
    \A v \in UsedValues(Graph) :
        v[1] = ParamNode \/ (v[1] \in DOMAIN nodes /\ v[2] \in 1..nodes[v[1]].nout)

\* C20 (well-formedness is preserved): in the input graph and after every
\* step, every input of every node of the primary block, and of the return
\* node, is a graph input or an output of a live node that precedes it in
\* the primary block, and no live node or graph output reads an output of a
\* destroyed node.
C20_WellFormed == PrimaryBlockWellFormed /\ NoDanglingUse

\* a GradOf node with a body of two nodes, the second reading the first, was
\* spliced, and a later node of the primary block reads an output of the body
C20_Witness ==
    /\ last.rule = "splice"
    /\ Len(PreNode.body) = 2
    /\ PreNode.body[1] \in {v[1] : v \in Range(nodes[PreNode.body[2]].inputs)}
    /\ \E m \in Range(block) \ Range(PreNode.body) :
         \E v \in Range(nodes[m].inputs) : v[1] \in Range(PreNode.body)

====
